---- MODULE Spec2Model ----
(***************************************************************************)
(* Card-input validation pipeline of app.py: the DFA check of the card     *)
(* number, issuer detection, CVV, expiry and name checks, the aggregating  *)
(* validate_card_input and the two Flask routes that call it.              *)
(*                                                                         *)
(* A Python string is a sequence of characters; a character is a one-      *)
(* element name ("4", "a", "/") and the non-ASCII ones are named by their   *)
(* code point ("U+00B2" is SUPERSCRIPT TWO).                                *)
(***************************************************************************)
EXTENDS Integers, Sequences, FiniteSets, TLC

(* ------------------------------ bounds -------------------------------- *)
MaxNumberLen == 20
MaxNameLen == 41
MaxCvvLen == 5
MaxYear == 2026

(* ------------------------- characters of str -------------------------- *)
AsciiDigits == {"0", "1", "2", "3", "4", "5", "6", "7", "8", "9"}
\* ARABIC-INDIC DIGITS ONE, TWO, THREE, FIVE: Nd, str.isdecimal() is True
ArabicIndicDigits == {"U+0661", "U+0662", "U+0663", "U+0665"}
\* SUPERSCRIPT TWO: No, Numeric_Type=Digit, isdigit() True, isdecimal() False
SuperscriptDigits == {"U+00B2"}
AsciiLetters == {"J", "o", "h", "n", "D", "e", "a", "s", "Z"}
\* LATIN SMALL LETTER E WITH ACUTE: Ll, str.isalpha() is True
NonAsciiLetters == {"U+00E9"}

\* the characters of the DFA's alphabet, set('0123456789')
alphabet == AsciiDigits

\* str.isdigit() of one character
char_isdigit(c) == c \in AsciiDigits \cup ArabicIndicDigits \cup SuperscriptDigits

\* str.isalpha() of one character
char_isalpha(c) == c \in AsciiLetters \cup NonAsciiLetters

\* str.isdigit(): at least one character and all characters are digits
str_isdigit(s) == Len(s) > 0 /\ \A i \in 1..Len(s) : char_isdigit(s[i])

\* str.startswith(prefix)
startswith(s, prefix) ==
    Len(s) >= Len(prefix) /\ SubSeq(s, 1, Len(prefix)) = prefix

\* the characters int() converts, and the value of each
int_accepts(s) == \A i \in 1..Len(s) : s[i] \in AsciiDigits \cup ArabicIndicDigits

digit_value(c) ==
    CASE c = "0" -> 0
      [] c = "1" \/ c = "U+0661" -> 1
      [] c = "2" \/ c = "U+0662" -> 2
      [] c = "3" \/ c = "U+0663" -> 3
      [] c = "4" -> 4
      [] c = "5" \/ c = "U+0665" -> 5
      [] c = "6" -> 6
      [] c = "7" -> 7
      [] c = "8" -> 8
      [] c = "9" -> 9

RECURSIVE int(_)
int(s) ==
    IF s = <<>> THEN 0
    ELSE 10 * int(SubSeq(s, 1, Len(s) - 1)) + digit_value(s[Len(s)])

(* ------------------ 1. DFA validation (digits + length) ---------------- *)
states == (0..19) \cup {-1}

final_states_12 == 12..19

final_states == 13..19

\* transitions[state][d]
transitions(state, d) ==
    IF state = -1 THEN -1
    ELSE IF state < 19 THEN state + 1 ELSE -1

\* DFA.accepts_input: a symbol outside input_symbols rejects the input
RECURSIVE read_input(_, _)
read_input(state, input) ==
    IF input = <<>> THEN state
    ELSE IF Head(input) \notin alphabet THEN -1
    ELSE read_input(transitions(state, Head(input)), Tail(input))

dfa_validate_card_number(number) == read_input(0, number) \in final_states

(* ------------------------ 2. detect card issuer ------------------------ *)
detect_card_issuer_prefix_only(number) ==
    LET length == Len(number) IN
    IF startswith(number, <<"4">>)
       /\ (length = 13 \/ length = 16 \/ length = 19)
    THEN "Visa"
    ELSE IF \E p \in {<<"5", "1">>, <<"5", "2">>, <<"5", "3">>,
                      <<"5", "4">>, <<"5", "5">>} : startswith(number, p)
    THEN "MasterCard"
    ELSE IF (\E p \in {<<"3", "4">>, <<"3", "7">>} : startswith(number, p))
            /\ length = 15
    THEN "American Express"
    ELSE IF (startswith(number, <<"6", "0", "1", "1">>)
             \/ startswith(number, <<"6", "5">>))
            /\ length = 16
    THEN "Discover"
    ELSE "Unknown"

detect_card_issuer(number) ==
    LET length == Len(number) IN
    IF startswith(number, <<"4">>)
       /\ (length = 13 \/ length = 16 \/ length = 19)
    THEN "Visa"
    ELSE IF (\E p \in {<<"5", "1">>, <<"5", "2">>, <<"5", "3">>,
                       <<"5", "4">>, <<"5", "5">>} : startswith(number, p))
            /\ length = 16
    THEN "MasterCard"
    ELSE IF (\E p \in {<<"3", "4">>, <<"3", "7">>} : startswith(number, p))
            /\ length = 15
    THEN "American Express"
    ELSE IF (startswith(number, <<"6", "0", "1", "1">>)
             \/ startswith(number, <<"6", "5">>))
            /\ length = 16
    THEN "Discover"
    ELSE "Unknown"

(* --------------------------- 3. CVV validation ------------------------- *)
validate_cvv(cvv, issuer) ==
    IF ~str_isdigit(cvv) THEN FALSE
    ELSE IF issuer = "American Express" THEN Len(cvv) = 4
    ELSE Len(cvv) = 3

(* ------------------------ 4. expiry date validation -------------------- *)
\* The outcome is "True", "False" or the exception raised.
validate_expiry_strict_month(expiry, dt) ==
    IF Len(expiry) # 5 THEN "False"
    ELSE IF expiry[3] # "/" THEN "False"
    ELSE
      LET month_part == SubSeq(expiry, 1, 2)
          year_part == SubSeq(expiry, 4, 5)
      IN
      IF ~(str_isdigit(month_part) /\ str_isdigit(year_part)) THEN "False"
      ELSE IF ~int_accepts(month_part) THEN "ValueError"
      ELSE IF ~int_accepts(<<"2", "0">> \o year_part) THEN "ValueError"
      ELSE
        LET month == int(month_part)
            year == int(<<"2", "0">> \o year_part)
        IN
        IF month < 1 \/ month > 12 THEN "False"
        ELSE IF year > dt.year THEN "True"
        ELSE IF year = dt.year /\ month > dt.month THEN "True"
        ELSE "False"

validate_expiry(expiry, dt) ==
    IF Len(expiry) # 5 THEN "False"
    ELSE IF expiry[3] # "/" THEN "False"
    ELSE
      LET month_part == SubSeq(expiry, 1, 2)
          year_part == SubSeq(expiry, 4, 5)
      IN
      IF ~(str_isdigit(month_part) /\ str_isdigit(year_part)) THEN "False"
      ELSE IF ~int_accepts(month_part) THEN "ValueError"
      ELSE IF ~int_accepts(<<"2", "0">> \o year_part) THEN "ValueError"
      ELSE
        LET month == int(month_part)
            year == int(<<"2", "0">> \o year_part)
        IN
        IF month < 1 \/ month > 12 THEN "False"
        ELSE IF year > dt.year THEN "True"
        ELSE IF year = dt.year /\ month >= dt.month THEN "True"
        ELSE "False"

(* --------------------------- 5. name validation ------------------------ *)
validate_name_short(name) ==
    IF ~(2 <= Len(name) /\ Len(name) <= 40) THEN FALSE
    ELSE \A i \in 1..Len(name) : char_isalpha(name[i]) \/ name[i] = " "

validate_name(name) ==
    IF ~(3 <= Len(name) /\ Len(name) <= 40) THEN FALSE
    ELSE \A i \in 1..Len(name) : char_isalpha(name[i]) \/ name[i] = " "

(* --------------------------- 6. master validator ----------------------- *)
NumberError == "Invalid card number format."
CvvError == "Invalid CVV format."
ExpiryError == "Invalid or expired expiry date."
NameError == "Invalid cardholder name."

\* the report as created; issuer None is the label "None"
new_result ==
    [card_number_valid |-> FALSE, issuer |-> "None", cvv_valid |-> FALSE,
     expiry_valid |-> FALSE, name_valid |-> FALSE, overall_status |-> FALSE,
     errors |-> <<>>]

\* the unknown issuer left as a valid number with no message
card_number_step_soft(result, card_number) ==
    IF dfa_validate_card_number(card_number)
    THEN [result EXCEPT !.card_number_valid = TRUE,
                        !.issuer = detect_card_issuer(card_number)]
    ELSE [result EXCEPT !.errors = Append(@, NumberError)]

\* the unknown issuer reported but the number left valid
card_number_step_noflip(result, card_number) ==
    IF dfa_validate_card_number(card_number)
    THEN LET issuer == detect_card_issuer(card_number) IN
         IF issuer = "Unknown"
         THEN [result EXCEPT !.card_number_valid = TRUE,
                             !.issuer = issuer,
                             !.errors = Append(@, NumberError)]
         ELSE [result EXCEPT !.card_number_valid = TRUE, !.issuer = issuer]
    ELSE [result EXCEPT !.errors = Append(@, NumberError)]

\* the unknown issuer flipped to invalid without a message
card_number_step_silent(result, card_number) ==
    IF dfa_validate_card_number(card_number)
    THEN LET issuer == detect_card_issuer(card_number) IN
         IF issuer = "Unknown"
         THEN [result EXCEPT !.card_number_valid = FALSE, !.issuer = issuer]
         ELSE [result EXCEPT !.card_number_valid = TRUE, !.issuer = issuer]
    ELSE [result EXCEPT !.errors = Append(@, NumberError)]

\* "# Card number"
card_number_step(result, card_number) ==
    IF dfa_validate_card_number(card_number)
    THEN LET issuer == detect_card_issuer(card_number) IN
         IF issuer = "Unknown"
         THEN [result EXCEPT !.card_number_valid = FALSE,
                             !.issuer = issuer,
                             !.errors = Append(@, NumberError)]
         ELSE [result EXCEPT !.card_number_valid = TRUE, !.issuer = issuer]
    ELSE [result EXCEPT !.errors = Append(@, NumberError)]

\* the issuer detected from the raw number instead of the report's issuer
cvv_step_raw_issuer(result, card_number, cvv) ==
    IF validate_cvv(cvv, detect_card_issuer(card_number))
    THEN [result EXCEPT !.cvv_valid = TRUE]
    ELSE [result EXCEPT !.errors = Append(@, CvvError)]

\* "# CVV"; card_number is not read
cvv_step(result, card_number, cvv) ==
    IF validate_cvv(cvv, result.issuer)
    THEN [result EXCEPT !.cvv_valid = TRUE]
    ELSE [result EXCEPT !.errors = Append(@, CvvError)]

\* "# Expiry", reached only when validate_expiry returns
expiry_step(result, expiry, dt) ==
    IF validate_expiry(expiry, dt) = "True"
    THEN [result EXCEPT !.expiry_valid = TRUE]
    ELSE [result EXCEPT !.errors = Append(@, ExpiryError)]

\* "# Name"
name_step(result, name) ==
    IF validate_name(name)
    THEN [result EXCEPT !.name_valid = TRUE]
    ELSE [result EXCEPT !.errors = Append(@, NameError)]

\* the name check left out of the conjunction
final_status_no_name(result) ==
    IF result.card_number_valid /\ result.cvv_valid /\ result.expiry_valid
    THEN [result EXCEPT !.overall_status = TRUE]
    ELSE result

\* "# Final status"
final_status(result) ==
    IF result.card_number_valid /\ result.cvv_valid
       /\ result.expiry_valid /\ result.name_valid
    THEN [result EXCEPT !.overall_status = TRUE]
    ELSE result

\* raised is "" when the report is returned, else the exception that
\* leaves validate_card_input (raised by validate_expiry) and no report
validate_card_input(card_number, cvv, expiry, name, dt) ==
    LET r1 == card_number_step(new_result, card_number)
        r2 == cvv_step(r1, card_number, cvv)
    IN
    IF validate_expiry(expiry, dt) \notin {"True", "False"}
    THEN [raised |-> validate_expiry(expiry, dt), result |-> new_result]
    ELSE [raised |-> "",
          result |-> final_status(name_step(expiry_step(r2, expiry, dt), name))]

(* ------------------------------ inputs --------------------------------- *)
\* the string of length n that starts with prefix (cut to n) and goes on with c
Fill(prefix, c, n) == [i \in 1..n |-> IF i <= Len(prefix) THEN prefix[i] ELSE c]

NumberPrefixes ==
    {<<>>, <<"4">>, <<"5", "0">>, <<"5", "1">>, <<"5", "5">>, <<"5", "6">>,
     <<"3", "4">>, <<"3", "7">>, <<"3", "5">>, <<"6", "0", "1", "1">>,
     <<"6", "0", "1", "2">>, <<"6", "5">>, <<"9">>, <<"U+0663">>, <<"a">>}

NumberInputs ==
    {Fill(p, c, n) : p \in NumberPrefixes, c \in {"0", "a", "U+0663"},
                     n \in 0..MaxNumberLen}

CvvInputs ==
    {Fill(p, "1", n) : p \in {<<>>, <<"a">>, <<"U+00B2">>, <<"U+0663">>},
                       n \in 0..MaxCvvLen}

Issuers == {"Visa", "MasterCard", "American Express", "Discover"}

IssuerInputs == Issuers \cup {"Unknown", "None"}

Years == 2025..MaxYear

TwoDigits(k) ==
    LET d == [i \in 0..9 |-> CASE i = 0 -> "0" [] i = 1 -> "1" [] i = 2 -> "2"
                               [] i = 3 -> "3" [] i = 4 -> "4" [] i = 5 -> "5"
                               [] i = 6 -> "6" [] i = 7 -> "7" [] i = 8 -> "8"
                               [] i = 9 -> "9"]
    IN <<d[k \div 10], d[k % 10]>>

MonthInputs ==
    {TwoDigits(m) : m \in {0, 1, 6, 12, 13}}
    \cup {<<"1", "U+00B2">>, <<"U+0661", "U+0662">>, <<"a", "1">>}

YearInputs ==
    {TwoDigits(y - 2000) : y \in (2024..(MaxYear + 1))}
    \cup {<<"2", "U+00B2">>, <<"U+0662", "U+0665">>, <<"2", "a">>}

ExpiryInputs ==
    {m \o <<sep>> \o y : m \in MonthInputs, sep \in {"/", "-"}, y \in YearInputs}
    \cup {<<>>, <<"1", "2", "2", "5">>, <<"1", "2", "/", "2", "0", "2", "5">>}

NameInputs ==
    {Fill(p, c, n) :
        p \in {<<>>, <<"J", "o", "h", "n", " ", "D", "o", "e">>,
               <<"J", "o", "h", "n", "3">>, <<"J", "o", "s", "U+00E9">>,
               <<"J", "-">>, <<" ", " ", " ">>},
        c \in {"a", " "}, n \in 0..MaxNameLen}

\* the payloads of POST /validate-card: a key is a string or is missing
Missing == <<"<missing>">>

PayloadNumbers ==
    {Fill(<<"4">>, "1", 16), Fill(<<"4">>, "1", 13), Fill(<<"4">>, "1", 14),
     Fill(<<"5", "5">>, "0", 16), Fill(<<"3", "4">>, "0", 15),
     Fill(<<"3", "4">>, "a", 15), Fill(<<"3", "7">>, "0", 16),
     Fill(<<"6", "0", "1", "1">>, "0", 16), Fill(<<"9">>, "9", 13),
     Fill(<<"4">>, "1", 12), Fill(<<"4">>, "1", MaxNumberLen),
     Fill(<<"4">>, "U+0663", 16), Missing}

PayloadCvvs ==
    {Fill(<<>>, "1", 2), Fill(<<>>, "1", 3), Fill(<<>>, "1", 4),
     Fill(<<"a">>, "1", 3), Fill(<<"U+00B2">>, "1", 3),
     Fill(<<"U+0663">>, "1", 4), Missing}

PayloadExpiries ==
    {<<"1", "2", "/", "2", "5">>, <<"0", "1", "/", "2", "6">>,
     <<"1", "3", "/", "2", "6">>, <<"1", "2", "-", "2", "6">>,
     <<"1", "U+00B2", "/", "2", "6">>, <<"U+0661", "U+0662", "/", "2", "6">>,
     Missing}

PayloadNames ==
    {<<"J", "o">>, <<"J", "o", "h", "n", " ", "D", "o", "e">>,
     <<"J", "o", "h", "n", "3">>, <<"J", "o", "s", "U+00E9">>,
     Fill(<<>>, "a", MaxNameLen), Missing}

\* data.get(key, "")
get(value) == IF value = Missing THEN <<>> ELSE value

(* ------------------------------- state --------------------------------- *)
VARIABLES
    now,      \* what datetime.now() returns: [year, month]
    pc,       \* "idle", "returned" or "raised": the outcome of the call
    call,     \* the function called and its arguments
    ret,      \* the value returned (or the exception raised) by the call
    result    \* the report of validate_card_input

vars == <<now, pc, call, ret, result>>

NoCall ==
    [op |-> "none", card_number |-> <<>>, cvv |-> <<>>, expiry |-> <<>>,
     name |-> <<>>, issuer |-> "None"]

Py(b) == IF b THEN "True" ELSE "False"

Init ==
    /\ now = [year |-> 2025, month |-> 1]
    /\ pc = "idle"
    /\ call = NoCall
    /\ ret = "none"
    /\ result = new_result

\* the clock moves on by a month between two calls
Tick ==
    /\ pc = "idle"
    /\ now.year < MaxYear \/ now.month < 12
    /\ now' = IF now.month = 12
              THEN [year |-> now.year + 1, month |-> 1]
              ELSE [now EXCEPT !.month = @ + 1]
    /\ UNCHANGED <<pc, call, ret, result>>

CallDfa ==
    /\ pc = "idle"
    /\ \E number \in NumberInputs :
        /\ call' = [NoCall EXCEPT !.op = "dfa_validate_card_number",
                                  !.card_number = number]
        /\ ret' = Py(dfa_validate_card_number(number))
    /\ pc' = "returned"
    /\ UNCHANGED <<now, result>>

CallDetect ==
    /\ pc = "idle"
    /\ \E number \in NumberInputs :
        /\ call' = [NoCall EXCEPT !.op = "detect_card_issuer",
                                  !.card_number = number]
        /\ ret' = detect_card_issuer(number)
    /\ pc' = "returned"
    /\ UNCHANGED <<now, result>>

CallCvv ==
    /\ pc = "idle"
    /\ \E cvv \in CvvInputs, issuer \in IssuerInputs :
        /\ call' = [NoCall EXCEPT !.op = "validate_cvv", !.cvv = cvv,
                                  !.issuer = issuer]
        /\ ret' = Py(validate_cvv(cvv, issuer))
    /\ pc' = "returned"
    /\ UNCHANGED <<now, result>>

CallExpiry ==
    /\ pc = "idle"
    /\ \E expiry \in ExpiryInputs :
        /\ call' = [NoCall EXCEPT !.op = "validate_expiry", !.expiry = expiry]
        /\ ret' = validate_expiry(expiry, now)
        /\ pc' = IF validate_expiry(expiry, now) \in {"True", "False"}
                 THEN "returned" ELSE "raised"
    /\ UNCHANGED <<now, result>>

CallName ==
    /\ pc = "idle"
    /\ \E name \in NameInputs :
        /\ call' = [NoCall EXCEPT !.op = "validate_name", !.name = name]
        /\ ret' = Py(validate_name(name))
    /\ pc' = "returned"
    /\ UNCHANGED <<now, result>>

\* the body shared by the two routes: validate_card_input, then jsonify
Respond(card_number, cvv, expiry, name) ==
    LET out == validate_card_input(card_number, cvv, expiry, name, now) IN
    /\ call' = [op |-> "validate_card_input", card_number |-> card_number,
                cvv |-> cvv, expiry |-> expiry, name |-> name,
                issuer |-> "None"]
    /\ result' = out.result
    /\ ret' = IF out.raised = "" THEN "report" ELSE out.raised
    /\ pc' = IF out.raised = "" THEN "returned" ELSE "raised"
    /\ UNCHANGED now

\* POST /validate-card
validate_card ==
    /\ pc = "idle"
    /\ \E n \in PayloadNumbers, c \in PayloadCvvs,
          e \in PayloadExpiries, m \in PayloadNames :
        Respond(get(n), get(c), get(e), get(m))

\* GET /test
test ==
    /\ pc = "idle"
    /\ Respond(Fill(<<"4">>, "1", 16), <<"1", "2", "3">>,
               <<"1", "2", "/", "2", "5">>,
               <<"J", "o", "h", "n", " ", "D", "o", "e">>)

\* the caller has its answer; the next call starts from nothing
Return ==
    /\ pc \in {"returned", "raised"}
    /\ pc' = "idle"
    /\ call' = NoCall
    /\ ret' = "none"
    /\ result' = new_result
    /\ UNCHANGED now

Next ==
    \/ Tick
    \/ CallDfa
    \/ CallDetect
    \/ CallCvv
    \/ CallExpiry
    \/ CallName
    \/ validate_card
    \/ test
    \/ Return

Spec == Init /\ [][Next]_vars

TypeOK ==
    /\ now.year \in Years /\ now.month \in 1..12
    /\ pc \in {"idle", "returned", "raised"}
    /\ result.issuer \in IssuerInputs

(* ------------------------- what the claims speak of -------------------- *)
Called(op) == pc = "returned" /\ call.op = op

\* validate_card_input has returned a report
Reported == Called("validate_card_input")

\* ^[0-9]{13,19}$
MatchesCardRegex(s) ==
    /\ 13 <= Len(s) /\ Len(s) <= 19
    /\ \A i \in 1..Len(s) : s[i] \in AsciiDigits

\* the issuer rules of the design, one by one
PrefixMatches(issuer, s) ==
    CASE issuer = "Visa" -> Len(s) >= 1 /\ s[1] = "4"
      [] issuer = "MasterCard" ->
            Len(s) >= 2 /\ s[1] = "5" /\ s[2] \in {"1", "2", "3", "4", "5"}
      [] issuer = "American Express" ->
            Len(s) >= 2 /\ s[1] = "3" /\ s[2] \in {"4", "7"}
      [] issuer = "Discover" ->
            \/ Len(s) >= 4 /\ s[1] = "6" /\ s[2] = "0" /\ s[3] = "1" /\ s[4] = "1"
            \/ Len(s) >= 2 /\ s[1] = "6" /\ s[2] = "5"

LengthMatches(issuer, s) ==
    CASE issuer = "Visa" -> Len(s) \in {13, 16, 19}
      [] issuer = "MasterCard" -> Len(s) = 16
      [] issuer = "American Express" -> Len(s) = 15
      [] issuer = "Discover" -> Len(s) = 16

RuleMatches(issuer, s) == PrefixMatches(issuer, s) /\ LengthMatches(issuer, s)

\* MM/YY in ASCII digits with MM in 01..12, and the month it names
ExpMonth(e) == 10 * digit_value(e[1]) + digit_value(e[2])

ExpYear(e) == 2000 + 10 * digit_value(e[4]) + digit_value(e[5])

WellFormedExpiry(e) ==
    /\ Len(e) = 5
    /\ e[3] = "/"
    /\ \A i \in {1, 2, 4, 5} : e[i] \in AsciiDigits
    /\ ExpMonth(e) \in 1..12

\* the date dt is not after month m of year y
NotAfter(dt, y, m) == dt.year < y \/ (dt.year = y /\ dt.month <= m)

\* the messages the report must carry for its four booleans
ExpectedErrors(r) ==
    (IF r.card_number_valid THEN <<>> ELSE <<NumberError>>)
    \o (IF r.cvv_valid THEN <<>> ELSE <<CvvError>>)
    \o (IF r.expiry_valid THEN <<>> ELSE <<ExpiryError>>)
    \o (IF r.name_valid THEN <<>> ELSE <<NameError>>)

(* -------------------------------- claims ------------------------------- *)

\* C1: in every report returned by validate_card_input, overall_status is
\* true iff card_number_valid, cvv_valid, expiry_valid and name_valid are
\* all true.
C1_OverallIffAllFields ==
    Reported =>
        (result.overall_status
            <=> (result.card_number_valid /\ result.cvv_valid
                 /\ result.expiry_valid /\ result.name_valid))

C1_Witness == Reported /\ result.overall_status /\ result.name_valid

\* C2: the errors of a returned report are exactly one message per false
\* per-field boolean, none for a true one, in the order number, cvv,
\* expiry, name.
C2_ErrorsMatchFields ==
    Reported =>
        /\ result.errors = ExpectedErrors(result)
        /\ Len(result.errors)
             = Cardinality({f \in {"card_number_valid", "cvv_valid",
                                   "expiry_valid", "name_valid"} : ~result[f]})

C2_Witness ==
    Reported /\ result.issuer = "Unknown" /\ Len(result.errors) = 3
    /\ result.cvv_valid

\* C3: no checker and no call of validate_card_input ever raises on a
\* string input (stated as in the specification; the code violates it).
C3_NeverRaises == pc # "raised"

\* C4: for an expiry MM/YY with MM in 01..12, validate_expiry is true at
\* every date not after (2000+YY, MM) and false at every later one, and as
\* the clock advances a false result never becomes true again.
C4_ExpiryByDate ==
    (pc # "idle" /\ call.op = "validate_expiry" /\ WellFormedExpiry(call.expiry))
        => ret = Py(NotAfter(now, ExpYear(call.expiry), ExpMonth(call.expiry)))

C4_StaysExpired ==
    \A e \in ExpiryInputs :
        (WellFormedExpiry(e) /\ validate_expiry(e, now) = "False")
            => validate_expiry(e, now') = "False"

C4_ExpiryMonotonic == []C4_ExpiryByDate /\ [][C4_StaysExpired]_vars

C4_Witness ==
    /\ Called("validate_expiry") /\ WellFormedExpiry(call.expiry)
    /\ ExpYear(call.expiry) = 2025 /\ ExpMonth(call.expiry) = 6
    /\ ret = "False"

\* C5: dfa_validate_card_number(s) is true iff s is 13 to 19 ASCII digits.
C5_NumberIffRegex ==
    Called("dfa_validate_card_number")
        => (ret = "True" <=> MatchesCardRegex(call.card_number))

C5_Witness ==
    /\ Called("dfa_validate_card_number") /\ ret = "False"
    /\ Len(call.card_number) = 12
    /\ \A i \in 1..12 : call.card_number[i] \in AsciiDigits

\* C6: detect_card_issuer returns an issuer only when that issuer's prefix
\* and length both match; a prefix match with the wrong length is Unknown;
\* at most one rule matches a string, so the result is the one rule that
\* matches whatever the order of evaluation.
C6_IssuerNeedsPrefixAndLength ==
    Called("detect_card_issuer") =>
        LET s == call.card_number
            matching == {i \in Issuers : RuleMatches(i, s)}
        IN
        /\ Cardinality(matching) <= 1
        /\ ret \in Issuers \cup {"Unknown"}
        /\ ret \in Issuers => ret \in matching
        /\ ret = "Unknown" <=> matching = {}

C6_Witness ==
    /\ Called("detect_card_issuer") /\ ret = "Unknown"
    /\ PrefixMatches("MasterCard", call.card_number)

\* C7: in every returned report cvv_valid is true iff the cvv is entirely
\* digits (by the character-class test) and its length is 4 when the
\* report's issuer is American Express and 3 otherwise (Unknown and None
\* included); a 4-digit cvv is accepted only with a format-valid American
\* Express number.
C7_CvvLengthByReportIssuer ==
    Reported =>
        /\ result.cvv_valid
             <=> (/\ str_isdigit(call.cvv)
                  /\ Len(call.cvv)
                       = IF result.issuer = "American Express" THEN 4 ELSE 3)
        /\ (result.cvv_valid /\ Len(call.cvv) = 4)
             => (/\ MatchesCardRegex(call.card_number)
                 /\ RuleMatches("American Express", call.card_number))

C7_Witness ==
    Reported /\ result.cvv_valid /\ Len(call.cvv) = 4

\* C8: for a card number that passes the format check and matches no
\* issuer rule, the returned report has issuer Unknown, at least one error
\* and overall_status false.
C8_UnknownIssuerFails ==
    (/\ Reported
     /\ MatchesCardRegex(call.card_number)
     /\ \A i \in Issuers : ~RuleMatches(i, call.card_number))
        => (/\ result.issuer = "Unknown"
            /\ Len(result.errors) >= 1
            /\ ~result.overall_status)

C8_Witness ==
    /\ Reported
    /\ call.card_number = Fill(<<>>, "9", 13)
    /\ result.cvv_valid /\ result.expiry_valid /\ result.name_valid

\* every character is a letter by str.isalpha() (non-ASCII letters
\* included) or a space
LettersAndSpaces(s) ==
    \A i \in 1..Len(s) : s[i] \in AsciiLetters \cup NonAsciiLetters \cup {" "}

\* every character is one of A-Z, a-z or a space
BasicLettersAndSpaces(s) ==
    \A i \in 1..Len(s) : s[i] \in AsciiLetters \cup {" "}

\* C9 (as amended): validate_name is true iff the length is 3..40 and every
\* character is a letter by str.isalpha(), non-ASCII letters included, or a
\* space; nothing is trimmed.
C9_NameIffLettersAndSpaces ==
    Called("validate_name") =>
        (ret = "True"
            <=> (/\ 3 <= Len(call.name) /\ Len(call.name) <= 40
                 /\ LettersAndSpaces(call.name)))

C9_Witness ==
    /\ Called("validate_name") /\ ret = "True"
    /\ \E i \in 1..Len(call.name) : call.name[i] = "U+00E9"

\* C9 (as claimed): validate_name is true iff the length is 3..40 and every
\* character is a basic alphabetic letter or a space.
C9_NameIffBasicLetters ==
    Called("validate_name") =>
        (ret = "True"
            <=> (/\ 3 <= Len(call.name) /\ Len(call.name) <= 40
                 /\ BasicLettersAndSpaces(call.name)))

\* C10: in every returned report card_number_valid is true iff issuer is
\* one of the four networks, issuer is None iff the number failed the
\* format check, and issuer Unknown comes only with card_number_valid false.
C10_NumberValidIffKnownIssuer ==
    Reported =>
        /\ result.card_number_valid <=> result.issuer \in Issuers
        /\ result.issuer = "None" <=> ~MatchesCardRegex(call.card_number)
        /\ result.issuer = "Unknown" => ~result.card_number_valid

C10_Witness ==
    Reported /\ result.issuer = "Unknown" /\ ~result.card_number_valid
    /\ result.name_valid

====
